---- MODULE Spec2Model ----
(***************************************************************************)
(* Wallet / money-movement backend (Flask + SQLAlchemy on PostgreSQL).     *)
(*                                                                         *)
(* Money is kept in minor units (cents): 50.00 is 5000.  The source keeps  *)
(* it in binary floats; every amount used here is exactly representable    *)
(* at two decimals, so the arithmetic below is the arithmetic of the code. *)
(*                                                                         *)
(* The ledger (table transactions) is the sequence txs; a row's            *)
(* transaction_id is its index in txs.  The order_tracking_id the gateway  *)
(* hands out for the order of row i is TrackingIdOf(i).                    *)
(*                                                                         *)
(* Every handler is given twice: as one atomic action (a request served    *)
(* with no other request in between), and, for the handlers that read,     *)
(* compute and write balances, as the steps a worker takes between its     *)
(* SELECTs and its COMMIT.  The store is PostgreSQL at READ COMMITTED and  *)
(* no handler locks a row: a SELECT sees what is committed at that moment, *)
(* the session keeps what it loaded, and the UPDATE at commit writes the   *)
(* values the handler computed from what it loaded.  Both forms share the  *)
(* operators that compute the write (..Commit) from what was seen.         *)
(***************************************************************************)
EXTENDS Integers, Sequences, FiniteSets, TLC

VARIABLES
    balance,    \* wallets.balance, per owning user (one wallet per user)
    txs,        \* table transactions, in insertion order
    resp,       \* the request last answered and its HTTP answer
    credits,    \* history: per ledger row, how often a reconciliation credited a
                \* wallet on its behalf
    nrec,       \* deposit reconciliations (callbacks, status polls) handled so far
    sess,       \* per worker: its position in a handler and its ORM session
    notifications,  \* table notifications, in insertion order
    token_cache,    \* _token_cache of wallet_routes: the gateway token kept, its expiry
    now,            \* datetime.utcnow(), in minutes
    token_ret,      \* what get_pesapal_token last returned or raised, and when
    classified      \* one gateway status answer and what each reader made of it

tokvars == <<token_cache, now, token_ret>>
vars == <<balance, txs, resp, credits, nrec, sess, notifications,
          token_cache, now, token_ret, classified>>

----------------------------------------------------------------------------
(* Bounds of the model *)

MaxTx == 2          \* ledger rows created in one behaviour
MaxDeposits == 1    \* ledger rows created in one behaviour of the deposit flow alone
MaxRecon == 3       \* callbacks and status polls handled in one behaviour
MaxClock == 6       \* minutes the clock advances in one behaviour
MaxLiveRecon == 2   \* callbacks and polls handled before the settled one arrives

----------------------------------------------------------------------------
(* The world the requests come from *)

Users == {1, 2, 3}
Admin == 1                       \* the seeded admin account
Wallets == Users                 \* users owning a wallet (registration creates it)
NoId == 0                        \* a missing / unknown identifier

\* wallets.status as the store holds it.  No handler writes the column; the
\* wallet of user 3 is one that has been frozen.
WalletStatus == [u \in Users |-> IF u = 3 THEN "frozen" ELSE "active"]

\* wallet_id values a transfer request may carry: a real one, none, an unknown one
WalletIds == Users \cup {NoId, 9}

\* amounts a client may put in a request body (cents)
ReqAmounts == {-2000, 0, 1050, 5000}
DepositAmounts == {-2000, 0, 5000}

\* add_funds refuses more than $10,000
MaxAddFunds == 1000000
AddAmounts == ReqAmounts \cup {MaxAddFunds + 100}

\* what the admin may send as 'action'
AdjustActions == {"add", "deduct", "set"}

\* how SubmitOrderRequest (and the token request before it) may end
DepositGw == {"accepted", "rejected", "timeout", "conn_error", "bad_json", "token_failed"}

\* amounts the gateway may report for a payment (cents); 0 is also what
\* float(status_data.get('amount', 0)) yields when the field is missing
GwAmounts == {-2000, 0, 2000, 5000}

\* raw fields <<status_code, payment_status_description>> of a GetTransactionStatus
\* answer: agreeing on completed, conflicting, failed by either field, in progress
RawStatuses == {<<1, "COMPLETED">>, <<1, "FAILED">>, <<2, "FAILED">>,
                <<0, "CANCELLED">>, <<0, "PENDING">>}

\* what the status query of a reconciliation yields: the request raises (timeout,
\* connection error, no token), the gateway answers with a non-200 status, or it
\* answers 200 with the raw fields status_code, payment_status_description, amount
\* The reported amount varies where the fields say completed; the handlers read
\* it in no other case but to word a notification.
GwAnswers ==
    {[http |-> h, status_code |-> 0, description |-> "PENDING", amount |-> 0] :
        h \in {"exception", "non200"}}
    \cup {[http |-> "ok", status_code |-> 1, description |-> "COMPLETED", amount |-> a] :
            a \in GwAmounts}
    \cup {[http |-> "ok", status_code |-> rs[1], description |-> rs[2], amount |-> 5000] :
            rs \in RawStatuses}

\* a status poll does not read the reported amount
PollAnswers == {g \in GwAnswers : g.amount = 5000} \cup {g \in GwAnswers : g.http # "ok"}

InitBalance == [u \in Users |-> CASE u = 1 -> 10000 [] u = 2 -> 1000 [] OTHER -> 0]

TrackingIdOf(i) == 100 + i
TrackingIds == {TrackingIdOf(i) : i \in 1..MaxTx}

----------------------------------------------------------------------------
(* Pure helpers *)

\* round(x, 2) of n/d cents: nearest, ties to even
RoundDiv(n, d) ==
    LET q == n \div d
        r == n % d
    IN  IF 2 * r > d THEN q + 1
        ELSE IF 2 * r < d THEN q
        ELSE IF q % 2 = 0 THEN q ELSE q + 1

\* the fee cut off after two decimals instead of rounded
calculate_fee_trunc(amount) == (amount * 15) \div 1000

\* round(amount * 0.015, 2)
calculate_fee(amount) == RoundDiv(amount * 15, 1000)

\* create_notification's parameters, and the keywords send_deposit_notification
\* and send_transaction_notification call it with
CreateNotificationParams ==
    {"user_id", "title", "message", "notification_type", "link", "metadata"}
NotificationKeywords ==
    {"user_id", "title", "message", "notification_type", "link", "meta_data"}

\* The rows send_deposit_notification(user, amount, status) adds to notifications.
\* It is called with the wallet, so user.id is the wallet's id (here the owner's).
\* The call of create_notification raises TypeError for a keyword that is not a
\* parameter; the helper catches it and returns None.
send_deposit_notification(user_id, amount, status) ==
    IF NotificationKeywords \subseteq CreateNotificationParams
    THEN << [user_id |-> user_id, type |-> IF status = "success" THEN "success" ELSE "error",
             amount |-> amount] >>
    ELSE << >>

\* the handler that answered last, the HTTP status it returned and what its body says
NoResp == [op |-> "none", code |-> 0, msg |-> ""]

Resp(op, code, msg) == [op |-> op, code |-> code, msg |-> msg]

Row(sender, receiver, amount, fee, total, type, status, note, mrid) ==
    [sender_id |-> sender, receiver_id |-> receiver, amount |-> amount,
     fee |-> fee, total_amount |-> total, type |-> type, status |-> status,
     note |-> note, merchant_request_id |-> mrid]

\* the outcome with every answer that is not a success taken for a failure
CallbackOutcome_UnknownFails(status_code, description) ==
    IF status_code = 1 \/ description = "COMPLETED" THEN "success" ELSE "failure"

\* pesapay_callback's outcome from the raw status fields
CallbackOutcome(status_code, description) ==
    LET is_completed == status_code = 1 \/ description = "COMPLETED"
        is_failed == \/ (status_code # 1 /\ status_code \in {2, 3})
                     \/ (description # "COMPLETED"
                         /\ description \in {"FAILED", "CANCELLED", "INVALID"})
    IN  IF is_completed THEN "success"
        ELSE IF is_failed THEN "failure"
        ELSE "pending"

\* check_pesapal_transaction_status with the failure test put first
check_pesapal_transaction_status_FailureFirst(http, status_code, description) ==
    IF http = "ok"
    THEN IF status_code \in {2, 3}
            \/ description \in {"FAILED", "CANCELLED", "INVALID"} THEN 2
         ELSE IF status_code = 1 \/ description = "COMPLETED" THEN 1
         ELSE 0
    ELSE 0

\* check_pesapal_transaction_status: 1 completed, 2 failed, 0 unknown or check failed
check_pesapal_transaction_status(http, status_code, description) ==
    IF http = "ok"
    THEN IF status_code = 1 \/ description = "COMPLETED" THEN 1
         ELSE IF status_code \in {2, 3}
                 \/ description \in {"FAILED", "CANCELLED", "INVALID"} THEN 2
         ELSE 0
    ELSE 0


\* the gateway's access tokens; None and a missing field read as NoToken, an
\* expiry of None as NoTime
Tokens == {"tokA", "tokB"}
NoToken == ""
NoTime == -1
TokenLifetime == 4               \* minutes a token is kept in the cache
EmptyCache == [token |-> NoToken, expires_at |-> NoTime]
NoReturn == [kind |-> "none", token |-> NoToken, at |-> 0]

\* answers to Auth/RequestToken: the HTTP outcome and the token field of the body
TokenAnswers == [http : {"ok", "error", "timeout"}, token : Tokens \cup {NoToken}]

Workers == {1, 2}                \* request-handling workers running side by side
Idle == [pc |-> "idle"]

----------------------------------------------------------------------------
\* the store after seeding, no request handled yet
InitStore ==
    /\ balance = InitBalance
    /\ txs = << >>
    /\ resp = NoResp
    /\ credits = << >>
    /\ nrec = 0
    /\ sess = [w \in Workers |-> Idle]
    /\ notifications = << >>
    /\ token_cache = EmptyCache
    /\ now = 0
    /\ token_ret = NoReturn

Init ==
    /\ InitStore
    /\ classified = [status_code |-> 0, description |-> "", callback |-> "", poll |-> -1]

----------------------------------------------------------------------------
(* send_money: POST /api/transactions/send *)

\* send_money's checks with the balance compared to the amount, the fee forgotten
SendMoneyCheck_NoFee(u, wallet_id, amount, seen_sender) ==
    IF wallet_id = NoId \/ amount <= 0 THEN "invalid"
    ELSE IF u \notin Wallets THEN "no_sender"
    ELSE IF wallet_id \notin Wallets THEN "no_receiver"
    ELSE IF u = wallet_id THEN "self"
    ELSE IF seen_sender < amount THEN "insufficient"
    ELSE "ok"

\* send_money's checks without the one for a transfer to oneself
SendMoneyCheck_NoSelf(u, wallet_id, amount, seen_sender) ==
    IF wallet_id = NoId \/ amount <= 0 THEN "invalid"
    ELSE IF u \notin Wallets THEN "no_sender"
    ELSE IF wallet_id \notin Wallets THEN "no_receiver"
    ELSE IF seen_sender < amount + calculate_fee(amount) THEN "insufficient"
    ELSE "ok"

\* why send_money refuses, or "ok"; seen_sender is the sender balance it loaded
SendMoneyCheck(u, wallet_id, amount, seen_sender) ==
    IF wallet_id = NoId \/ amount <= 0 THEN "invalid"
    ELSE IF u \notin Wallets THEN "no_sender"
    ELSE IF wallet_id \notin Wallets THEN "no_receiver"
    ELSE IF u = wallet_id THEN "self"
    ELSE IF seen_sender < amount + calculate_fee(amount) THEN "insufficient"
    ELSE "ok"

SendMoneyCode(check) ==
    CASE check = "ok" -> 200
      [] check \in {"no_sender", "no_receiver"} -> 404
      [] OTHER -> 400

\* the write of a transfer that passed the checks: both balances as computed from
\* the balances the session loaded, and the ledger row
SendMoneyCommit(u, wallet_id, amount, seen_sender, seen_receiver) ==
    LET fee == calculate_fee(amount)
        total_amount == amount + fee
    IN  /\ balance' = [balance EXCEPT ![u] = seen_sender - total_amount,
                                      ![wallet_id] = seen_receiver + amount]
        /\ txs' = Append(txs, Row(u, wallet_id, amount, fee, total_amount,
                                  "transfer", "completed", "user", NoId))
        /\ credits' = Append(credits, 0) /\ UNCHANGED notifications

SendMoney(u, wallet_id, amount) ==
    LET check == SendMoneyCheck(u, wallet_id, amount,
                                IF u \in Wallets THEN balance[u] ELSE 0)
    IN  /\ resp' = Resp("send_money", SendMoneyCode(check), check)
        /\ UNCHANGED <<nrec, sess>>
        /\ IF check = "ok"
           THEN SendMoneyCommit(u, wallet_id, amount, balance[u], balance[wallet_id])
           ELSE UNCHANGED <<balance, txs, credits, notifications>>

----------------------------------------------------------------------------
(* add_funds: POST /api/wallet/add-funds *)

AddFunds(u, amount) ==
    /\ UNCHANGED <<nrec, sess>>
    /\ IF u \notin Wallets
       THEN /\ resp' = Resp("add_funds", 404, "no_wallet")
            /\ UNCHANGED <<balance, txs, credits, notifications>>
       ELSE IF amount <= 0 \/ amount > MaxAddFunds
       THEN /\ resp' = Resp("add_funds", 400, "invalid")
            /\ UNCHANGED <<balance, txs, credits, notifications>>
       ELSE /\ balance' = [balance EXCEPT ![u] = @ + amount]
            /\ txs' = Append(txs, Row(u, u, amount, 0, amount,
                                      "add_funds", "completed", "user", NoId))
            /\ credits' = Append(credits, 0) /\ UNCHANGED notifications
            /\ resp' = Resp("add_funds", 200, "ok")

----------------------------------------------------------------------------
(* admin_adjust_wallet: POST /api/admin/wallets/<wallet_id>/adjust *)

\* admin_adjust_wallet deducting without comparing the balance with the amount
AdminAdjustWallet_NoBalanceCheck(admin, wallet_id, action, amount) ==
    /\ UNCHANGED <<nrec, sess>>
    /\ IF wallet_id \notin Wallets
       THEN /\ resp' = Resp("admin_adjust", 404, "no_wallet")
            /\ UNCHANGED <<balance, txs, credits, notifications>>
       ELSE IF amount <= 0
       THEN /\ resp' = Resp("admin_adjust", 400, "invalid")
            /\ UNCHANGED <<balance, txs, credits, notifications>>
       ELSE IF action \in {"add", "deduct"}
       THEN /\ balance' = [balance EXCEPT ![wallet_id] =
                              IF action = "add" THEN @ + amount ELSE @ - amount]
            /\ txs' = Append(txs, IF action = "add"
                                  THEN Row(admin, wallet_id, amount, 0, amount,
                                           "add_funds", "completed", "admin_add", NoId)
                                  ELSE Row(wallet_id, admin, amount, 0, amount,
                                           "admin_deduction", "completed",
                                           "admin_deduct", NoId))
            /\ credits' = Append(credits, 0) /\ UNCHANGED notifications
            /\ resp' = Resp("admin_adjust", 200, "ok")
       ELSE /\ resp' = Resp("admin_adjust", 400, "bad_action")
            /\ UNCHANGED <<balance, txs, credits, notifications>>

AdminAdjustWallet(admin, wallet_id, action, amount) ==
    /\ UNCHANGED <<nrec, sess>>
    /\ IF wallet_id \notin Wallets
       THEN /\ resp' = Resp("admin_adjust", 404, "no_wallet")
            /\ UNCHANGED <<balance, txs, credits, notifications>>
       ELSE IF amount <= 0
       THEN /\ resp' = Resp("admin_adjust", 400, "invalid")
            /\ UNCHANGED <<balance, txs, credits, notifications>>
       ELSE IF action = "add"
       THEN /\ balance' = [balance EXCEPT ![wallet_id] = @ + amount]
            /\ txs' = Append(txs, Row(admin, wallet_id, amount, 0, amount,
                                      "add_funds", "completed", "admin_add", NoId))
            /\ credits' = Append(credits, 0) /\ UNCHANGED notifications
            /\ resp' = Resp("admin_adjust", 200, "ok")
       ELSE IF action = "deduct"
       THEN IF balance[wallet_id] < amount
            THEN /\ resp' = Resp("admin_adjust", 400, "insufficient")
                 /\ UNCHANGED <<balance, txs, credits, notifications>>
            ELSE /\ balance' = [balance EXCEPT ![wallet_id] = @ - amount]
                 /\ txs' = Append(txs, Row(wallet_id, admin, amount, 0, amount,
                                           "admin_deduction", "completed",
                                           "admin_deduct", NoId))
                 /\ credits' = Append(credits, 0) /\ UNCHANGED notifications
                 /\ resp' = Resp("admin_adjust", 200, "ok")
       ELSE /\ resp' = Resp("admin_adjust", 400, "bad_action")
            /\ UNCHANGED <<balance, txs, credits, notifications>>

----------------------------------------------------------------------------
(* pesapay_deposit: POST /api/wallet/deposit *)

\* pesapay_deposit with the pending row inserted before the gateway is asked
PesapayDeposit_RowBeforeGateway(u, amount, gw) ==
    /\ UNCHANGED <<balance, nrec, sess>>
    /\ IF amount <= 0
       THEN /\ resp' = Resp("deposit", 400, "invalid")
            /\ UNCHANGED <<txs, credits, notifications>>
       ELSE IF u \notin Wallets
       THEN /\ resp' = Resp("deposit", 404, "no_wallet")
            /\ UNCHANGED <<txs, credits, notifications>>
       ELSE /\ txs' = Append(txs, Row(u, u, amount, 0, amount, "pesapay_deposit",
                                      "pending", "pending", TrackingIdOf(Len(txs) + 1)))
            /\ credits' = Append(credits, 0) /\ UNCHANGED notifications
            /\ resp' = Resp("deposit",
                            CASE gw = "accepted" -> 200
                              [] gw = "rejected" -> 400
                              [] gw = "timeout" -> 408
                              [] gw = "conn_error" -> 503
                              [] OTHER -> 500,
                            IF gw = "accepted" THEN "initiated" ELSE gw)

PesapayDeposit(u, amount, gw) ==
    /\ UNCHANGED <<balance, nrec, sess>>
    /\ IF amount <= 0
       THEN /\ resp' = Resp("deposit", 400, "invalid")
            /\ UNCHANGED <<txs, credits, notifications>>
       ELSE IF u \notin Wallets
       THEN /\ resp' = Resp("deposit", 404, "no_wallet")
            /\ UNCHANGED <<txs, credits, notifications>>
       ELSE IF gw = "accepted"
       THEN /\ txs' = Append(txs, Row(u, u, amount, 0, amount, "pesapay_deposit",
                                      "pending", "pending", TrackingIdOf(Len(txs) + 1)))
            /\ credits' = Append(credits, 0) /\ UNCHANGED notifications
            /\ resp' = Resp("deposit", 200, "initiated")
       ELSE /\ resp' = Resp("deposit",
                            CASE gw = "rejected" -> 400
                              [] gw = "timeout" -> 408
                              [] gw = "conn_error" -> 503
                              [] OTHER -> 500,
                            gw)
            /\ UNCHANGED <<txs, credits, notifications>>

----------------------------------------------------------------------------
(* pesapay_callback: GET/POST /api/wallet/pesapay-callback (the gateway's IPN).
   order_tracking_id and merchant_reference are the query parameters; http,
   status_code, description and amount are what GetTransactionStatus answers
   for order_tracking_id. *)

\* why the callback answers before it touches a row, or "" when it goes on
CallbackEarly(order_tracking_id, merchant_reference, http) ==
    IF order_tracking_id = NoId \/ merchant_reference = NoId THEN "missing_parameters"
    ELSE IF http = "exception" THEN "internal_error"
    ELSE IF http = "non200" THEN "verify_failed"
    ELSE IF merchant_reference \notin 1..Len(txs) THEN "not_found"
    ELSE ""

CallbackEarlyCode(early) ==
    CASE early = "missing_parameters" -> 400
      [] early = "verify_failed" -> 500
      [] OTHER -> 200

\* the callback's write with the success branch crediting the amount of the row
\* (the amount requested) instead of the amount the gateway reports
CallbackCommit_RequestedAmount(ref, order_tracking_id, outcome, amount, seen_status, seen_balance) ==
    LET owner == txs[ref].sender_id
    IN  IF outcome = "success"
        THEN IF seen_status # "completed"
             THEN /\ balance' = [balance EXCEPT ![owner] = seen_balance + txs[ref].amount]
                  /\ txs' = [txs EXCEPT ![ref] =
                                [@ EXCEPT !.status = "completed",
                                          !.note = "cb_success",
                                          !.merchant_request_id = order_tracking_id]]
                  /\ credits' = [credits EXCEPT ![ref] = @ + 1]
                  /\ notifications' = notifications \o send_deposit_notification(owner, amount, "success")
             ELSE UNCHANGED <<balance, txs, credits, notifications>>
        ELSE IF outcome = "failure"
        THEN IF seen_status # "failed"
             THEN /\ txs' = [txs EXCEPT ![ref] =
                                [@ EXCEPT !.status = "failed",
                                          !.note = "cb_failed",
                                          !.merchant_request_id = order_tracking_id]]
                  /\ UNCHANGED <<balance, credits>>
                  /\ notifications' = notifications \o send_deposit_notification(owner, amount, "failed")
             ELSE UNCHANGED <<balance, txs, credits, notifications>>
        ELSE /\ txs' = [txs EXCEPT ![ref] =
                           [@ EXCEPT !.note = "processing",
                                     !.merchant_request_id = order_tracking_id]]
             /\ UNCHANGED <<balance, credits, notifications>>

\* the callback's write with the success branch not looking at the row's status
CallbackCommit_NoStatusCheck(ref, order_tracking_id, outcome, amount, seen_status, seen_balance) ==
    LET owner == txs[ref].sender_id
    IN  IF outcome = "success"
        THEN /\ balance' = [balance EXCEPT ![owner] = seen_balance + amount]
             /\ txs' = [txs EXCEPT ![ref] =
                           [@ EXCEPT !.status = "completed",
                                     !.amount = amount,
                                     !.note = "cb_success",
                                     !.merchant_request_id = order_tracking_id]]
             /\ credits' = [credits EXCEPT ![ref] = @ + IF amount > 0 THEN 1 ELSE 0]
             /\ notifications' = notifications \o send_deposit_notification(owner, amount, "success")
        ELSE IF outcome = "failure"
        THEN IF seen_status # "failed"
             THEN /\ txs' = [txs EXCEPT ![ref] =
                                [@ EXCEPT !.status = "failed",
                                          !.note = "cb_failed",
                                          !.merchant_request_id = order_tracking_id]]
                  /\ UNCHANGED <<balance, credits>>
                  /\ notifications' = notifications \o send_deposit_notification(owner, amount, "failed")
             ELSE UNCHANGED <<balance, txs, credits, notifications>>
        ELSE /\ txs' = [txs EXCEPT ![ref] =
                           [@ EXCEPT !.note = "processing",
                                     !.merchant_request_id = order_tracking_id]]
             /\ UNCHANGED <<balance, credits, notifications>>

\* The write of the callback for row ref, from the status and the wallet balance
\* its session loaded.  Only the columns assigned are written.
CallbackCommit(ref, order_tracking_id, outcome, amount, seen_status, seen_balance) ==
    LET owner == txs[ref].sender_id
    IN  IF outcome = "success"
        THEN IF seen_status # "completed"
             THEN /\ balance' = [balance EXCEPT ![owner] = seen_balance + amount]
                  /\ txs' = [txs EXCEPT ![ref] =
                                [@ EXCEPT !.status = "completed",
                                          !.amount = amount,
                                          !.note = "cb_success",
                                          !.merchant_request_id = order_tracking_id]]
                  /\ credits' = [credits EXCEPT ![ref] = @ + IF amount > 0 THEN 1 ELSE 0]
                  /\ notifications' = notifications \o send_deposit_notification(owner, amount, "success")
             ELSE UNCHANGED <<balance, txs, credits, notifications>>
        ELSE IF outcome = "failure"
        THEN IF seen_status # "failed"
             THEN /\ txs' = [txs EXCEPT ![ref] =
                                [@ EXCEPT !.status = "failed",
                                          !.note = "cb_failed",
                                          !.merchant_request_id = order_tracking_id]]
                  /\ UNCHANGED <<balance, credits>>
                  /\ notifications' = notifications \o send_deposit_notification(owner, amount, "failed")
             ELSE UNCHANGED <<balance, txs, credits, notifications>>
        ELSE /\ txs' = [txs EXCEPT ![ref] =
                           [@ EXCEPT !.note = "processing",
                                     !.merchant_request_id = order_tracking_id]]
             /\ UNCHANGED <<balance, credits, notifications>>

\* the owner of the row has no wallet: the row is failed
CallbackNoWallet(ref) ==
    /\ txs' = [txs EXCEPT ![ref] = [@ EXCEPT !.status = "failed",
                                             !.note = "wallet_not_found"]]
    /\ UNCHANGED <<balance, credits, notifications>>

PesapayCallback(order_tracking_id, merchant_reference, http, status_code, description, amount) ==
    LET early == CallbackEarly(order_tracking_id, merchant_reference, http)
    IN  /\ nrec' = nrec + 1
        /\ UNCHANGED sess
        /\ IF early # ""
           THEN /\ resp' = Resp("callback", CallbackEarlyCode(early), early)
                /\ UNCHANGED <<balance, txs, credits, notifications>>
           ELSE IF txs[merchant_reference].sender_id \notin Wallets
           THEN /\ resp' = Resp("callback", 404, "no_wallet")
                /\ CallbackNoWallet(merchant_reference)
           ELSE /\ resp' = Resp("callback", 200, "processed")
                /\ CallbackCommit(merchant_reference, order_tracking_id,
                                  CallbackOutcome(status_code, description), amount,
                                  txs[merchant_reference].status,
                                  balance[txs[merchant_reference].sender_id])

----------------------------------------------------------------------------
(* check_payment_status: GET /api/wallet/payment-status/<reference> *)

\* what the body of the poll's 200 answer says of the gateway:
\* pesapal_status_code, null (-1 here) when the gateway was not asked
PollBody(pesapal_status) ==
    CASE pesapal_status = -1 -> "status"
      [] pesapal_status = 0 -> "pesapal_0"
      [] pesapal_status = 1 -> "pesapal_1"
      [] OTHER -> "pesapal_2"

\* what the poll answers when it finds no row of the caller, or 0 when it goes on
PollEarlyCode(u, reference) ==
    IF reference \notin 1..Len(txs) THEN 404
    ELSE IF txs[reference].sender_id # u THEN 403
    ELSE 0

\* does the poll ask the gateway: the row it loaded is pending and has a tracking id
PollAsksGateway(transaction) ==
    transaction.status = "pending" /\ transaction.merchant_request_id # NoId

\* the poll's write with a failed payment left as it is
PollCommit_FailureIgnored(u, reference, pesapal_status, seen_amount, seen_balance) ==
    IF pesapal_status = 1 /\ u \in Wallets
    THEN /\ balance' = [balance EXCEPT ![u] = seen_balance + seen_amount]
         /\ txs' = [txs EXCEPT ![reference] =
                       [@ EXCEPT !.status = "completed", !.note = "poll_completed"]]
         /\ credits' = [credits EXCEPT ![reference] =
                            @ + IF seen_amount > 0 THEN 1 ELSE 0]
         /\ notifications' = notifications \o send_deposit_notification(u, seen_amount, "success")
    ELSE UNCHANGED <<balance, txs, credits, notifications>>

\* The write of the poll once the gateway answered pesapal_status, from the row
\* (seen_amount; its status was seen pending) and the balance its session loaded.
PollCommit(u, reference, pesapal_status, seen_amount, seen_balance) ==
    IF pesapal_status = 1
    THEN IF u \in Wallets
         THEN /\ balance' = [balance EXCEPT ![u] = seen_balance + seen_amount]
              /\ txs' = [txs EXCEPT ![reference] =
                            [@ EXCEPT !.status = "completed",
                                      !.note = "poll_completed"]]
              /\ credits' = [credits EXCEPT ![reference] =
                                 @ + IF seen_amount > 0 THEN 1 ELSE 0]
              /\ notifications' = notifications \o send_deposit_notification(u, seen_amount, "success")
         ELSE UNCHANGED <<balance, txs, credits, notifications>>
    ELSE IF pesapal_status \in {2, 3}
    THEN /\ txs' = [txs EXCEPT ![reference] =
                       [@ EXCEPT !.status = "failed", !.note = "poll_failed"]]
         /\ UNCHANGED <<balance, credits, notifications>>
    ELSE UNCHANGED <<balance, txs, credits, notifications>>

CheckPaymentStatus(u, reference, http, status_code, description) ==
    LET early == PollEarlyCode(u, reference)
    IN  /\ nrec' = nrec + 1
        /\ UNCHANGED sess
        /\ IF early # 0
           THEN /\ resp' = Resp("payment_status", early, "refused")
                /\ UNCHANGED <<balance, txs, credits, notifications>>
           ELSE /\ resp' = Resp("payment_status", 200,
                               PollBody(IF PollAsksGateway(txs[reference])
                                        THEN check_pesapal_transaction_status(
                                                 http, status_code, description)
                                        ELSE -1))
                /\ IF PollAsksGateway(txs[reference])
                   THEN PollCommit(u, reference,
                            check_pesapal_transaction_status(http, status_code, description),
                            txs[reference].amount,
                            IF u \in Wallets THEN balance[u] ELSE 0)
                   ELSE UNCHANGED <<balance, txs, credits, notifications>>

\* references and tracking ids a request may name: none, every one in use, one unknown
Refs == 0..(Len(txs) + 1)
Otids == {NoId} \cup {TrackingIdOf(i) : i \in {j \in 1..Len(txs) : txs[j].type = "pesapay_deposit"}}

----------------------------------------------------------------------------
(* The same handlers as the steps of a worker.  A step is what the handler does
   from one access of the store to just before the next one; sess[w] holds what
   the worker's session has loaded so far. *)

\* pesapay_callback up to and including the SELECT of the transaction
CallbackLoadTransaction(w, order_tracking_id, merchant_reference, g) ==
    LET early == CallbackEarly(order_tracking_id, merchant_reference, g.http)
    IN  /\ sess[w] = Idle
        /\ nrec' = nrec + 1
        /\ UNCHANGED <<balance, txs, credits, notifications>>
        /\ IF early # ""
           THEN /\ resp' = Resp("callback", CallbackEarlyCode(early), early)
                /\ UNCHANGED sess
           ELSE /\ sess' = [sess EXCEPT ![w] =
                              [pc |-> "cb_wallet",
                               ref |-> merchant_reference,
                               otid |-> order_tracking_id,
                               outcome |-> CallbackOutcome(g.status_code, g.description),
                               amount |-> g.amount,
                               seen_status |-> txs[merchant_reference].status]]
                /\ UNCHANGED resp

\* the SELECT of the owner's wallet
CallbackLoadWallet(w) ==
    /\ sess[w].pc = "cb_wallet"
    /\ UNCHANGED nrec
    /\ IF txs[sess[w].ref].sender_id \notin Wallets
       THEN /\ CallbackNoWallet(sess[w].ref)
            /\ resp' = Resp("callback", 404, "no_wallet")
            /\ sess' = [sess EXCEPT ![w] = Idle]
       ELSE /\ sess' = [sess EXCEPT ![w] =
                          [pc |-> "cb_commit", ref |-> @.ref, otid |-> @.otid,
                           outcome |-> @.outcome, amount |-> @.amount,
                           seen_status |-> @.seen_status,
                           seen_balance |-> balance[txs[@.ref].sender_id]]]
            /\ UNCHANGED <<balance, txs, credits, resp, notifications>>

\* the branch on the outcome and db.session.commit()
CallbackCommitStep(w) ==
    /\ sess[w].pc = "cb_commit"
    /\ CallbackCommit(sess[w].ref, sess[w].otid, sess[w].outcome, sess[w].amount,
                      sess[w].seen_status, sess[w].seen_balance)
    /\ resp' = Resp("callback", 200, "processed")
    /\ sess' = [sess EXCEPT ![w] = Idle]
    /\ UNCHANGED nrec

\* check_payment_status up to the call of the gateway
PollLoadTransaction(w, u, reference) ==
    LET early == PollEarlyCode(u, reference)
    IN  /\ sess[w] = Idle
        /\ nrec' = nrec + 1
        /\ UNCHANGED <<balance, txs, credits, notifications>>
        /\ IF early # 0
           THEN /\ resp' = Resp("payment_status", early, "refused")
                /\ UNCHANGED sess
           ELSE IF ~PollAsksGateway(txs[reference])
           THEN /\ resp' = Resp("payment_status", 200, "status")
                /\ UNCHANGED sess
           ELSE /\ sess' = [sess EXCEPT ![w] =
                              [pc |-> "poll_gateway", user |-> u, ref |-> reference,
                               seen_amount |-> txs[reference].amount]]
                /\ UNCHANGED resp

\* the gateway answers the poll's status query; on completed the wallet is SELECTed,
\* on failed the row is written at once
PollGatewayAnswer(w, g) ==
    LET pesapal_status ==
            check_pesapal_transaction_status(g.http, g.status_code, g.description)
    IN  /\ sess[w].pc = "poll_gateway"
        /\ UNCHANGED nrec
        /\ IF pesapal_status = 1 /\ sess[w].user \in Wallets
           THEN /\ sess' = [sess EXCEPT ![w] =
                              [pc |-> "poll_commit", user |-> @.user, ref |-> @.ref,
                               seen_amount |-> @.seen_amount,
                               seen_balance |-> balance[@.user]]]
                /\ UNCHANGED <<balance, txs, credits, resp, notifications>>
           ELSE /\ PollCommit(sess[w].user, sess[w].ref, pesapal_status,
                              sess[w].seen_amount, 0)
                /\ resp' = Resp("payment_status", 200, PollBody(pesapal_status))
                /\ sess' = [sess EXCEPT ![w] = Idle]

\* the credit and db.session.commit() of the poll
PollCommitStep(w) ==
    /\ sess[w].pc = "poll_commit"
    /\ PollCommit(sess[w].user, sess[w].ref, 1, sess[w].seen_amount, sess[w].seen_balance)
    /\ resp' = Resp("payment_status", 200, PollBody(1))
    /\ sess' = [sess EXCEPT ![w] = Idle]
    /\ UNCHANGED nrec

\* send_money up to and including the SELECT of the sender's wallet
SendMoneyLoadSender(w, u, wallet_id, amount) ==
    /\ sess[w] = Idle
    /\ UNCHANGED <<balance, txs, credits, nrec, notifications>>
    /\ IF wallet_id = NoId \/ amount <= 0
       THEN /\ resp' = Resp("send_money", 400, "invalid")
            /\ UNCHANGED sess
       ELSE IF u \notin Wallets
       THEN /\ resp' = Resp("send_money", 404, "no_sender")
            /\ UNCHANGED sess
       ELSE /\ sess' = [sess EXCEPT ![w] =
                          [pc |-> "xfer_receiver", user |-> u, wallet_id |-> wallet_id,
                           amount |-> amount, seen_sender |-> balance[u]]]
            /\ UNCHANGED resp

\* the SELECT of the receiver's wallet and the checks that follow it
SendMoneyLoadReceiver(w) ==
    LET check == SendMoneyCheck(sess[w].user, sess[w].wallet_id, sess[w].amount,
                                sess[w].seen_sender)
    IN  /\ sess[w].pc = "xfer_receiver"
        /\ UNCHANGED <<balance, txs, credits, nrec, notifications>>
        /\ IF check # "ok"
           THEN /\ resp' = Resp("send_money", SendMoneyCode(check), check)
                /\ sess' = [sess EXCEPT ![w] = Idle]
           ELSE /\ sess' = [sess EXCEPT ![w] =
                              [pc |-> "xfer_commit", user |-> @.user,
                               wallet_id |-> @.wallet_id, amount |-> @.amount,
                               seen_sender |-> @.seen_sender,
                               seen_receiver |-> balance[@.wallet_id]]]
                /\ UNCHANGED resp

\* the two balance writes, the ledger insert and db.session.commit()
SendMoneyCommitStep(w) ==
    /\ sess[w].pc = "xfer_commit"
    /\ SendMoneyCommit(sess[w].user, sess[w].wallet_id, sess[w].amount,
                       sess[w].seen_sender, sess[w].seen_receiver)
    /\ resp' = Resp("send_money", 200, "ok")
    /\ sess' = [sess EXCEPT ![w] = Idle]
    /\ UNCHANGED nrec

\* transfers a worker has begun and not yet answered
InFlightTransfers == Cardinality({w \in Workers : sess[w].pc \in {"xfer_receiver", "xfer_commit"}})

----------------------------------------------------------------------------

Next ==
    \/ /\ UNCHANGED <<tokvars, classified>>
       /\ Len(txs) < MaxTx
       /\ \E u \in Users, w \in WalletIds, a \in ReqAmounts : SendMoney(u, w, a)
    \/ /\ UNCHANGED <<tokvars, classified>>
       /\ Len(txs) < MaxTx
       /\ \E u \in Users, a \in AddAmounts : AddFunds(u, a)
    \/ /\ UNCHANGED <<tokvars, classified>>
       /\ Len(txs) < MaxTx
       /\ \E w \in WalletIds, act \in AdjustActions, a \in ReqAmounts :
             AdminAdjustWallet(Admin, w, act, a)
    \/ /\ UNCHANGED <<tokvars, classified>>
       /\ Len(txs) < MaxTx
       /\ \E u \in Users, a \in DepositAmounts, gw \in DepositGw : PesapayDeposit(u, a, gw)
    \/ /\ UNCHANGED <<tokvars, classified>>
       /\ nrec < MaxRecon
       /\ \E o \in Otids, r \in Refs, g \in GwAnswers :
             PesapayCallback(o, r, g.http, g.status_code, g.description, g.amount)
    \/ /\ UNCHANGED <<tokvars, classified>>
       /\ nrec < MaxRecon
       /\ \E u \in Users, r \in Refs, g \in PollAnswers :
             CheckPaymentStatus(u, r, g.http, g.status_code, g.description)

\* the deposit flow alone: initiation, callbacks, status polls
NextDeposit ==
    \/ /\ UNCHANGED <<tokvars, classified>>
       /\ Len(txs) < MaxDeposits
       /\ \E u \in Users, a \in DepositAmounts, gw \in DepositGw : PesapayDeposit(u, a, gw)
    \/ /\ UNCHANGED <<tokvars, classified>>
       /\ nrec < MaxRecon
       /\ \E o \in Otids, r \in Refs, g \in GwAnswers :
             PesapayCallback(o, r, g.http, g.status_code, g.description, g.amount)
    \/ /\ UNCHANGED <<tokvars, classified>>
       /\ nrec < MaxRecon
       /\ \E u \in Users, r \in Refs, g \in PollAnswers :
             CheckPaymentStatus(u, r, g.http, g.status_code, g.description)

\* the synchronous ledger operations alone
NextLedger ==
    \/ /\ UNCHANGED <<tokvars, classified>>
       /\ Len(txs) < MaxTx
       /\ \E u \in Users, w \in WalletIds, a \in ReqAmounts : SendMoney(u, w, a)
    \/ /\ UNCHANGED <<tokvars, classified>>
       /\ Len(txs) < MaxTx
       /\ \E u \in Users, a \in AddAmounts : AddFunds(u, a)
    \/ /\ UNCHANGED <<tokvars, classified>>
       /\ Len(txs) < MaxTx
       /\ \E w \in WalletIds, act \in AdjustActions, a \in ReqAmounts :
             AdminAdjustWallet(Admin, w, act, a)

\* the deposit flow with two workers reconciling side by side
NextDepositConc ==
    \/ /\ UNCHANGED <<tokvars, classified>>
       /\ Len(txs) < MaxDeposits
       /\ \E u \in Users, a \in DepositAmounts, gw \in DepositGw : PesapayDeposit(u, a, gw)
    \/ /\ UNCHANGED <<tokvars, classified>>
       /\ nrec < MaxRecon
       /\ \E w \in Workers, o \in Otids, r \in Refs, g \in GwAnswers :
             CallbackLoadTransaction(w, o, r, g)
    \/ /\ UNCHANGED <<tokvars, classified>>
       /\ \E w \in Workers : CallbackLoadWallet(w)
    \/ /\ UNCHANGED <<tokvars, classified>>
       /\ \E w \in Workers : CallbackCommitStep(w)
    \/ /\ UNCHANGED <<tokvars, classified>>
       /\ nrec < MaxRecon
       /\ \E w \in Workers, u \in Users, r \in Refs : PollLoadTransaction(w, u, r)
    \/ /\ UNCHANGED <<tokvars, classified>>
       /\ \E w \in Workers, g \in PollAnswers : PollGatewayAnswer(w, g)
    \/ /\ UNCHANGED <<tokvars, classified>>
       /\ \E w \in Workers : PollCommitStep(w)

\* transfers with two workers side by side
NextTransferConc ==
    \/ /\ UNCHANGED <<tokvars, classified>>
       /\ Len(txs) + InFlightTransfers < MaxTx
       /\ \E w \in Workers, u \in Users, wid \in WalletIds, a \in ReqAmounts :
             SendMoneyLoadSender(w, u, wid, a)
    \/ /\ UNCHANGED <<tokvars, classified>>
       /\ \E w \in Workers : SendMoneyLoadReceiver(w)
    \/ /\ UNCHANGED <<tokvars, classified>>
       /\ \E w \in Workers : SendMoneyCommitStep(w)

----------------------------------------------------------------------------
(* get_pesapal_token: the access token every gateway call starts with.     *)
(* The handlers' gateway inputs (gw, http) range over every outcome of a   *)
(* gateway call, the token request's included; the cache itself is         *)
(* followed here, with the workers calling the function side by side and   *)
(* the clock advancing while a token request is under way.                 *)

\* the cache test without the comparison of the expiry to the clock
TokenCacheValid_IgnoresExpiry ==
    token_cache.token # NoToken /\ token_cache.expires_at # NoTime

\* the cached token is still to be used
TokenCacheValid ==
    /\ token_cache.token # NoToken
    /\ token_cache.expires_at # NoTime
    /\ token_cache.expires_at > now

\* a worker calls get_pesapal_token: the cached token is returned, or the
\* request to Auth/RequestToken is sent
GetTokenCheck(w) ==
    /\ sess[w] = Idle
    /\ IF TokenCacheValid
       THEN /\ token_ret' = [kind |-> "cached", token |-> token_cache.token, at |-> now]
            /\ UNCHANGED sess
       ELSE /\ sess' = [sess EXCEPT ![w] = [pc |-> "token_request"]]
            /\ UNCHANGED token_ret
    /\ UNCHANGED <<token_cache, now>>
    /\ UNCHANGED <<balance, txs, resp, credits, nrec, notifications, classified>>

\* the answer to the token request arrives: a 200 with a token is cached and
\* returned, anything else raises
GetTokenAnswer(w, a) ==
    /\ sess[w].pc = "token_request"
    /\ sess' = [sess EXCEPT ![w] = Idle]
    /\ IF a.http = "ok" /\ a.token # NoToken
       THEN /\ token_cache' = [token |-> a.token, expires_at |-> now + TokenLifetime]
            /\ token_ret' = [kind |-> "new", token |-> a.token, at |-> now]
       ELSE /\ token_ret' = [kind |-> "raised", token |-> NoToken, at |-> now]
            /\ UNCHANGED token_cache
    /\ UNCHANGED now
    /\ UNCHANGED <<balance, txs, resp, credits, nrec, notifications, classified>>

\* a minute passes
Tick ==
    /\ now < MaxClock
    /\ now' = now + 1
    /\ UNCHANGED <<token_cache, token_ret, sess>>
    /\ UNCHANGED <<balance, txs, resp, credits, nrec, notifications, classified>>

NextToken ==
    \/ \E w \in Workers : GetTokenCheck(w)
    \/ \E w \in Workers, a \in TokenAnswers : GetTokenAnswer(w, a)
    \/ Tick

----------------------------------------------------------------------------
(* The two readers of a gateway status answer, applied to the same fields *)

\* status_code values of an answer (-1: the field is missing) and the
\* payment_status_description texts as the gateway sends them
StatusCodes == {-1, 0, 1, 2, 3, 4}
Descriptions == {"", "Completed", "COMPLETED", "Failed", "FAILED", "CANCELLED",
                 "INVALID", "PENDING", "REVERSED"}

\* str.upper() on the descriptions
Upper(d) ==
    CASE d = "Completed" -> "COMPLETED"
      [] d = "Failed" -> "FAILED"
      [] OTHER -> d

\* what check_payment_status makes of the code the check returns
PollOutcome(pesapal_status) ==
    IF pesapal_status = 1 THEN "success"
    ELSE IF pesapal_status \in {2, 3} THEN "failure"
    ELSE "pending"

InitClassify ==
    /\ InitStore
    /\ classified \in [status_code : StatusCodes, description : Descriptions,
                       callback : {""}, poll : {-1}]

\* pesapay_callback reads the answer
ClassifyCallback ==
    /\ classified.callback = ""
    /\ classified' = [classified EXCEPT
                         !.callback = CallbackOutcome(classified.status_code,
                                                      Upper(classified.description))]
    /\ UNCHANGED <<balance, txs, resp, credits, nrec, sess, notifications, tokvars>>

\* check_pesapal_transaction_status reads the answer
ClassifyPoll ==
    /\ classified.poll = -1
    /\ classified' = [classified EXCEPT
                         !.poll = check_pesapal_transaction_status(
                                      "ok", classified.status_code,
                                      Upper(classified.description))]
    /\ UNCHANGED <<balance, txs, resp, credits, nrec, sess, notifications, tokvars>>

NextClassify ==
    \/ ClassifyCallback
    \/ ClassifyPoll

----------------------------------------------------------------------------
(* The deposit flow once the gateway has settled a payment: besides the     *)
(* requests of NextDeposit, a callback or a poll of the owner arrives for a *)
(* pending row while the status query answers with the settled outcome.     *)
(* Flask runs a handler to its response once the request is in, which is    *)
(* the fairness assumed of these requests.                                  *)

\* answers of the status query that report a settled payment
TerminalAnswers ==
    {g \in GwAnswers : /\ g.http = "ok"
                       /\ \/ g.status_code \in {1, 2, 3}
                          \/ g.description \in {"COMPLETED", "FAILED", "CANCELLED", "INVALID"}}

\* the gateway's callback for pending row r, the payment settled
TerminalCallback(r) ==
    /\ r \in DOMAIN txs
    /\ txs[r].status = "pending"
    /\ nrec < MaxLiveRecon + MaxDeposits
    /\ \E g \in TerminalAnswers :
          PesapayCallback(txs[r].merchant_request_id, r, g.http, g.status_code,
                          g.description, g.amount)

\* the owner's status poll for pending row r, the payment settled
TerminalPoll(r) ==
    /\ r \in DOMAIN txs
    /\ txs[r].status = "pending"
    /\ nrec < MaxLiveRecon + MaxDeposits
    /\ \E g \in TerminalAnswers \cap PollAnswers :
          CheckPaymentStatus(txs[r].sender_id, r, g.http, g.status_code, g.description)

TerminalReconciliation ==
    \E r \in 1..MaxDeposits : TerminalCallback(r) \/ TerminalPoll(r)

NextDepositLive ==
    \/ /\ UNCHANGED <<tokvars, classified>>
       /\ Len(txs) < MaxDeposits
       /\ \E u \in Users, a \in DepositAmounts, gw \in DepositGw : PesapayDeposit(u, a, gw)
    \/ /\ UNCHANGED <<tokvars, classified>>
       /\ nrec < MaxLiveRecon
       /\ \E o \in Otids, r \in Refs, g \in GwAnswers :
             PesapayCallback(o, r, g.http, g.status_code, g.description, g.amount)
    \/ /\ UNCHANGED <<tokvars, classified>>
       /\ nrec < MaxLiveRecon
       /\ \E u \in Users, r \in Refs, g \in PollAnswers :
             CheckPaymentStatus(u, r, g.http, g.status_code, g.description)
    \/ /\ UNCHANGED <<tokvars, classified>>
       /\ \E r \in 1..MaxDeposits : TerminalCallback(r)
    \/ /\ UNCHANGED <<tokvars, classified>>
       /\ \E r \in 1..MaxDeposits : TerminalPoll(r)

Spec == Init /\ [][Next]_vars
SpecDepositConc == Init /\ [][NextDepositConc]_vars
SpecTransferConc == Init /\ [][NextTransferConc]_vars
SpecDeposit == Init /\ [][NextDeposit]_vars
SpecLedger == Init /\ [][NextLedger]_vars
SpecToken == Init /\ [][NextToken]_vars
SpecClassify == InitClassify /\ [][NextClassify]_vars
SpecDepositLive ==
    Init /\ [][NextDepositLive]_vars
         /\ WF_vars(UNCHANGED <<tokvars, classified>> /\ TerminalReconciliation)

----------------------------------------------------------------------------
(* Properties *)

Rows == DOMAIN txs
DepositRows == {i \in Rows : txs[i].type = "pesapay_deposit"}
Terminal == {"completed", "failed"}

\* 1.5% of amount rounded to two decimals: the cent value nearest to amount * 0.015
FeeOf(amount) ==
    CHOOSE f \in 0..amount : 2 * (IF 1000 * f >= 15 * amount
                                  THEN 1000 * f - 15 * amount
                                  ELSE 15 * amount - 1000 * f) <= 1000

\* C1: for every gateway deposit row, over any sequence of callbacks and status
\* polls, the owner's balance is increased on its behalf at most once.
C1_CreditedAtMostOnce == \A i \in DepositRows : credits[i] <= 1

\* C2: once a row is completed or failed, no later callback or poll changes its
\* status.
C2_TerminalStatusIsFinal ==
    [][\A i \in Rows : txs[i].status \in Terminal => txs'[i].status = txs[i].status]_vars

\* C3: of two reconciliations of the same pending row running side by side at most
\* one credits: no reconciliation adds to the balance for a row that another one
\* has already committed as completed.
C3_NoCreditOnCompletedRow ==
    [][\A i \in Rows : credits'[i] > credits[i] => txs[i].status # "completed"]_vars

\* C4: a reconciliation credits a row only for the gateway payment that was opened
\* for it: the tracking id verified (and kept on the row) is the one the gateway
\* issued for that row's order.
C4_CreditOnlyForOwnPayment ==
    [][\A i \in Rows : credits'[i] > credits[i]
                          => txs'[i].merchant_request_id = TrackingIdOf(i)]_vars

\* C5: a success callback for a pending row completes it and adds the reported
\* amount to the owner's balance; a success callback for a row already completed
\* changes neither a balance nor a row; both are acknowledged with 200.
\* (Only a callback that got as far as the row answers "processed".)
C5_SuccessCallbackTwice ==
    [][(resp'.op = "callback" /\ resp'.msg = "processed") =>
        \A r \in Rows : txs[r].status \in {"pending", "completed"} =>
          \A o \in Otids \ {NoId}, a \in GwAmounts :
            PesapayCallback(o, r, "ok", 1, "COMPLETED", a) =>
               /\ resp'.code = 200
               /\ txs[r].status = "pending" =>
                     /\ txs'[r].status = "completed"
                     /\ balance' = [balance EXCEPT ![txs[r].sender_id] = @ + a]
               /\ txs[r].status = "completed" => UNCHANGED <<balance, txs>>]_vars

\* C5 witness: one deposit of 50.00 by user 3, two reconciliations handled, the row
\* completed by a callback, the balance credited once, the last callback answered 200.
C5_Witness ==
    /\ Len(txs) = 1 /\ nrec = 2
    /\ txs[1].status = "completed" /\ txs[1].note = "cb_success"
    /\ txs[1].sender_id = 3 /\ txs[1].amount = 5000
    /\ credits[1] = 1
    /\ balance[3] = InitBalance[3] + 5000
    /\ resp = Resp("callback", 200, "processed")

\* C6: a successful transfer of a from S to R takes a + fee from S, gives a to R,
\* touches no other wallet and appends exactly one completed transfer row with
\* amount a, fee = 1.5% of a rounded to 2 decimals and total_amount = a + fee.
C6_TransferEffect ==
    [][(resp'.op = "send_money" /\ resp'.code = 200) =>
        \A u \in Users, w \in WalletIds, a \in ReqAmounts :
          SendMoney(u, w, a) =>
             /\ w \in Users /\ w # u
             /\ balance' = [balance EXCEPT ![u] = @ - (a + FeeOf(a)), ![w] = @ + a]
             /\ txs' = Append(txs, [sender_id |-> u, receiver_id |-> w, amount |-> a,
                                    fee |-> FeeOf(a), total_amount |-> a + FeeOf(a),
                                    type |-> "transfer", status |-> "completed",
                                    note |-> "user", merchant_request_id |-> NoId])]_vars

\* C6 witness: balance 100.00, a = 50.00: fee 0.75, sender at 49.25, receiver + 50.00.
C6_Witness ==
    /\ resp = Resp("send_money", 200, "ok")
    /\ Len(txs) = 1 /\ txs[1].type = "transfer"
    /\ txs[1].sender_id = 1 /\ txs[1].receiver_id = 2
    /\ txs[1].amount = 5000 /\ txs[1].fee = 75 /\ txs[1].total_amount = 5075
    /\ balance = [InitBalance EXCEPT ![1] = 4925, ![2] = InitBalance[2] + 5000]

\* C7: a transfer request with amount <= 0, or with sender balance < amount + fee,
\* is answered with an error and changes no balance and no row.
C7_RejectedTransferChangesNothing ==
    [][resp'.op = "send_money" =>
        \A u \in Users, w \in WalletIds, a \in ReqAmounts :
          (SendMoney(u, w, a) /\ (a <= 0 \/ balance[u] < a + FeeOf(a))) =>
             /\ resp'.code \in {400, 404}
             /\ UNCHANGED <<balance, txs>>]_vars

\* C7 witness: balance 10.00, transfer of 10.50 (needs 10.66) refused as insufficient
\* after an earlier transfer went through, the balances and the ledger as before it.
C7_Witness ==
    /\ resp = Resp("send_money", 400, "insufficient")
    /\ Len(txs) = 1
    /\ balance[3] = 1050 /\ balance[1] = InitBalance[1] - 1066
    /\ balance[2] = InitBalance[2]

\* what row adds to (sign 1) or takes from (sign -1) the wallet of u, by the
\* row types in kinds; only completed rows count
RowEffect(row, u, sign, kinds) ==
    IF row.status # "completed" \/ row.type \notin kinds THEN 0
    ELSE IF sign = 1 THEN (IF row.receiver_id = u THEN row.amount ELSE 0)
    ELSE (IF row.sender_id = u THEN row.total_amount ELSE 0)

RECURSIVE SumRows(_, _, _, _)
SumRows(q, u, sign, kinds) ==
    IF q = << >> THEN 0
    ELSE RowEffect(Head(q), u, sign, kinds) + SumRows(Tail(q), u, sign, kinds)

\* what the transfers reported successful took from u, and gave to u
TransfersSent(u) == SumRows(txs, u, -1, {"transfer"})
TransfersReceived(u) == SumRows(txs, u, 1, {"transfer"})

\* C8: with transfers from one sender running side by side, the sender's balance
\* is never negative and the transfers reported successful never debit more than
\* was available to the sender (its opening balance and what it received).
C8_NoOverspend ==
    \A u \in Users :
        /\ balance[u] >= 0
        /\ TransfersSent(u) <= InitBalance[u] + TransfersReceived(u)

\* C9: every wallet balance is >= 0 in every reachable state.
C9_BalanceNonNegative == \A u \in Users : balance[u] >= 0

\* credits recorded for u by completed rows: transfers received, deposits,
\* add-funds and admin additions
LedgerCredits(u) == SumRows(txs, u, 1, {"transfer", "pesapay_deposit", "add_funds"})

\* debits recorded for u by completed rows: transfers sent and admin deductions
LedgerDebits(u) == SumRows(txs, u, -1, {"transfer", "admin_deduction"})

\* C10: each balance equals its opening balance plus the net effect of the
\* completed ledger rows of its owner; pending and failed rows count for nothing.
C10_LedgerConsistent ==
    \A u \in Users : balance[u] = InitBalance[u] + LedgerCredits(u) - LedgerDebits(u)

\* C11: deposit initiation appends a pending row if and only if the gateway accepted
\* the order; when the token request or the order submission times out, cannot
\* connect, answers undecodable JSON or is rejected, no row is created; initiation
\* never changes a balance.
C11_PendingRowIffAccepted ==
    [][resp'.op = "deposit" =>
        \A u \in Users, a \in DepositAmounts, gw \in DepositGw :
          PesapayDeposit(u, a, gw) =>
             /\ balance' = balance
             /\ IF gw = "accepted" /\ resp'.code = 200
                THEN /\ Len(txs') = Len(txs) + 1
                     /\ SubSeq(txs', 1, Len(txs)) = txs
                     /\ txs'[Len(txs')].status = "pending"
                     /\ txs'[Len(txs')].type = "pesapay_deposit"
                     /\ txs'[Len(txs')].sender_id = u
                     /\ txs'[Len(txs')].amount = a
                ELSE /\ txs' = txs
                     /\ resp'.code # 200
             /\ (gw # "accepted" /\ a > 0) => resp'.code \in {400, 408, 500, 503}]_vars

\* C11 witness: the order submission timed out: answered 408, no row, balances as
\* they were.
C11_Witness ==
    /\ resp = Resp("deposit", 408, "timeout")
    /\ txs = << >>
    /\ balance = InitBalance

\* the gateway answers that pesapay_callback classifies as a success
SuccessAnswers ==
    {g \in GwAnswers : g.http = "ok" /\ CallbackOutcome(g.status_code, g.description) = "success"}

\* C12: a success callback for a pending row adds the amount the gateway reports
\* (not the amount requested) to the owner's balance, records that amount on the
\* row and sets the row to completed, in the one step that commits.
C12_CreditsReportedAmount ==
    [][(resp'.op = "callback" /\ resp'.msg = "processed") =>
        \A r \in Rows : txs[r].status = "pending" =>
          \A o \in Otids \ {NoId}, g \in SuccessAnswers :
            PesapayCallback(o, r, g.http, g.status_code, g.description, g.amount) =>
               /\ balance' = [balance EXCEPT ![txs[r].sender_id] = @ + g.amount]
               /\ txs'[r].amount = g.amount
               /\ txs'[r].status = "completed"
               /\ \A i \in Rows \ {r} : txs'[i] = txs[i]]_vars

\* C12 witness: 50.00 requested by user 2, the gateway reported 20.00: the row is
\* completed with amount 20.00 and the balance is 20.00 higher.
C12_Witness ==
    /\ Len(txs) = 1
    /\ txs[1].sender_id = 2 /\ txs[1].status = "completed" /\ txs[1].note = "cb_success"
    /\ txs[1].amount = 2000 /\ txs[1].total_amount = 5000
    /\ balance = [InitBalance EXCEPT ![2] = @ + 2000]

\* the answers the gateway can give to a status query that reached it
OkAnswers == {g \in GwAnswers : g.http = "ok"}

\* C13: resolving a pending row through check_payment_status gives what resolving it
\* through pesapay_callback gives for the same gateway answer: on success the
\* balance grows by the reported amount and the row is completed with that amount
\* recorded, on failure the row is failed, otherwise it stays pending.
C13_PollSameAsCallback ==
    [][resp'.op = "payment_status" =>
        \A r \in Rows : txs[r].status = "pending" =>
          \A g \in OkAnswers :
            CheckPaymentStatus(txs[r].sender_id, r, g.http, g.status_code, g.description) =>
               LET outcome == CallbackOutcome(g.status_code, g.description)
                   owner == txs[r].sender_id
               IN  CASE outcome = "success" ->
                          /\ balance' = [balance EXCEPT ![owner] = @ + g.amount]
                          /\ txs'[r].status = "completed"
                          /\ txs'[r].amount = g.amount
                     [] outcome = "failure" ->
                          /\ balance' = balance
                          /\ txs'[r].status = "failed"
                          /\ txs'[r].amount = txs[r].amount
                     [] OTHER ->
                          /\ balance' = balance
                          /\ txs'[r].status = "pending"
                          /\ txs'[r].amount = txs[r].amount]_vars

\* C14: a callback whose merchant reference matches no row creates no row, changes
\* no balance and is answered 200, whatever the gateway's status query returns.
C14_UnknownReferenceAcknowledged ==
    [][resp'.op = "callback" =>
        \A o \in Otids \ {NoId}, r \in Refs \ (Rows \cup {NoId}), g \in GwAnswers :
          PesapayCallback(o, r, g.http, g.status_code, g.description, g.amount) =>
             /\ UNCHANGED <<balance, txs>>
             /\ resp'.code = 200]_vars

StatusWords == {"COMPLETED", "FAILED", "CANCELLED", "INVALID"}

\* gateway answers that report a payment still in progress or in a state the
\* program does not know
InProgressAnswers ==
    {g \in OkAnswers : g.status_code \notin {1, 2, 3} /\ g.description \notin StatusWords}

\* gateway answers that report a failed or cancelled payment
FailureAnswers ==
    {g \in OkAnswers : /\ g.status_code # 1 /\ g.description # "COMPLETED"
                       /\ \/ g.status_code \in {2, 3}
                          \/ g.description \in {"FAILED", "CANCELLED", "INVALID"}}

\* row r after the step is row r before it but for its note and its tracking id
OnlyDiagnosticsChanged(r) ==
    txs'[r] = [txs[r] EXCEPT !.note = txs'[r].note,
                             !.merchant_request_id = txs'[r].merchant_request_id]

C16_FailureMovesToFailed ==
    [][/\ (resp'.op = "callback" /\ resp'.msg = "processed") =>
          \A r \in Rows : txs[r].status = "pending" =>
            \A g \in FailureAnswers, o \in Otids \ {NoId} :
              PesapayCallback(o, r, g.http, g.status_code, g.description, g.amount)
              => /\ txs'[r].status = "failed"
                 /\ balance' = balance
       /\ (resp'.op = "payment_status" /\ resp'.code = 200) =>
          \A r \in Rows : txs[r].status = "pending" =>
            \A g \in FailureAnswers :
              CheckPaymentStatus(txs[r].sender_id, r, g.http, g.status_code, g.description)
              => /\ txs'[r].status = "failed"
                 /\ balance' = balance]_vars

\* C16 witness: the status poll found the payment failed: row failed, balances as
\* at the start.
C16_Witness ==
    /\ Len(txs) = 1
    /\ txs[1].status = "failed" /\ txs[1].note = "poll_failed"
    /\ resp = Resp("payment_status", 200, PollBody(2))
    /\ balance = InitBalance

\* C17: a callback for a row that is already completed or failed changes nothing
\* that is stored: the row (status, amount, note, merchant_request_id) and every
\* balance are as before, for success, failure and in-progress answers alike.
C17_TerminalCallbackIsNoOp ==
    [][(resp'.op = "callback" /\ resp'.msg = "processed") =>
        \A r \in Rows : txs[r].status \in Terminal =>
          \A o \in Otids \ {NoId}, g \in OkAnswers :
            PesapayCallback(o, r, g.http, g.status_code, g.description, g.amount) =>
               UNCHANGED <<balance, txs>>]_vars

\* C18: a transfer debits the sender only if the sender's wallet is active: every
\* transfer row was sent from an active wallet.
C18_OnlyActiveWalletsSend ==
    \A i \in Rows : txs[i].type = "transfer" => WalletStatus[txs[i].sender_id] = "active"

\* C19: a transfer to the sender's own wallet is refused with an error and changes
\* nothing; hence every transfer row has a sender different from its receiver.
C19_SelfTransferRejected ==
    [][resp'.op = "send_money" =>
        /\ \A u \in Users, a \in ReqAmounts :
             SendMoney(u, u, a) => /\ resp'.code = 400
                                   /\ UNCHANGED <<balance, txs>>
        /\ \A i \in DOMAIN txs' :
             txs'[i].type = "transfer" => txs'[i].sender_id # txs'[i].receiver_id]_vars

\* C19 witness: a transfer to the sender's own wallet was asked for first thing:
\* refused as such, no row, balances as at the start.
C19_Witness ==
    /\ resp = Resp("send_money", 400, "self")
    /\ txs = << >>
    /\ balance = InitBalance

\* C20: an admin deduction succeeds only if the balance is >= the amount; a deduction
\* beyond the balance, an amount <= 0, an unknown wallet and an unknown direction
\* fail with an error, leave the balance unchanged and create no row.
C20_AdminAdjustRejections ==
    [][resp'.op = "admin_adjust" =>
        \A w \in WalletIds, act \in AdjustActions, a \in ReqAmounts :
          AdminAdjustWallet(Admin, w, act, a) =>
             IF \/ w \notin Wallets
                \/ a <= 0
                \/ act \notin {"add", "deduct"}
                \/ (act = "deduct" /\ balance[w] < a)
             THEN /\ resp'.code \in {400, 404}
                  /\ UNCHANGED <<balance, txs>>
             ELSE act = "deduct" =>
                  /\ resp'.code = 200
                  /\ balance' = [balance EXCEPT ![w] = @ - a]
                  /\ balance'[w] >= 0
                  /\ Len(txs') = Len(txs) + 1]_vars

\* C20 witness: a deduction of 50.00 from the wallet of user 2, which holds 10.00:
\* refused as insufficient, no row, balances as at the start.
C20_Witness ==
    /\ resp = Resp("admin_adjust", 400, "insufficient")
    /\ txs = << >>
    /\ balance = InitBalance

\* C21: every successful admin adjustment, add or deduct, appends exactly one
\* completed row of type admin_adjustment with the acting admin as counterparty:
\* sender for an add, receiver for a deduct, the wallet's owner the other party.
C21_AdminAdjustmentRow ==
    [][(resp'.op = "admin_adjust" /\ resp'.code = 200) =>
        \A w \in Users, act \in {"add", "deduct"}, a \in ReqAmounts :
          AdminAdjustWallet(Admin, w, act, a) =>
             /\ Len(txs') = Len(txs) + 1
             /\ SubSeq(txs', 1, Len(txs)) = txs
             /\ LET row == txs'[Len(txs')]
                IN  /\ row.type = "admin_adjustment"
                    /\ row.status = "completed"
                    /\ act = "add" => (row.sender_id = Admin /\ row.receiver_id = w)
                    /\ act = "deduct" => (row.sender_id = w /\ row.receiver_id = Admin)]_vars

\* how many rows the step adds to notifications for user u
NewNotificationsFor(u) ==
    Cardinality({k \in (Len(notifications) + 1)..Len(notifications') :
                    notifications'[k].user_id = u})

\* C22: every move of a row into a terminal state (a deposit completed or failed by
\* the callback or by the status poll, a transfer completed) adds one notification
\* for the user concerned: the owner of the wallet, for a transfer both parties.
C22_TerminalTransitionNotifies ==
    [][/\ \A i \in Rows :
            (txs[i].status \notin Terminal /\ txs'[i].status \in Terminal)
               => NewNotificationsFor(txs[i].sender_id) = 1
       /\ \A i \in DOMAIN txs' \ Rows :
            txs'[i].type = "transfer"
               => /\ NewNotificationsFor(txs'[i].sender_id) = 1
                  /\ NewNotificationsFor(txs'[i].receiver_id) = 1]_vars

\* C23: a transfer holds exclusive locks on both wallets it touches from before it
\* reads a balance until it commits: two transfers that have read a balance and not
\* yet committed never touch a common wallet.
C23_TransfersHoldWalletLocks ==
    \A w1, w2 \in Workers :
        ( /\ w1 # w2
          /\ sess[w1].pc \in {"xfer_receiver", "xfer_commit"}
          /\ sess[w2].pc \in {"xfer_receiver", "xfer_commit"}
          /\ sess[w1].user # sess[w1].wallet_id
          /\ sess[w2].user # sess[w2].wallet_id )
        => {sess[w1].user, sess[w1].wallet_id} \cap {sess[w2].user, sess[w2].wallet_id} = {}

\* the ways the gateway's status query can fail
FailedQueries == {g \in GwAnswers : g.http # "ok"}

\* C24: when the status query of a poll fails, the poll's answer differs from the
\* one it gives for a payment still in progress, the row stays pending and no
\* balance changes.
C24_FailedCheckDistinguishable ==
    [][(resp'.op = "payment_status" /\ resp'.code = 200) =>
        \A r \in Rows : txs[r].status = "pending" =>
          \A gf \in FailedQueries :
            CheckPaymentStatus(txs[r].sender_id, r, gf.http, gf.status_code, gf.description)
            => /\ txs'[r].status = "pending"
               /\ balance' = balance
               /\ \A gp \in InProgressAnswers :
                    resp' # Resp("payment_status", 200,
                                 PollBody(check_pesapal_transaction_status(
                                              gp.http, gp.status_code, gp.description)))]_vars

\* C25: every transaction row has total_amount = amount + fee, a deposit row
\* completed with a reported amount other than the requested one included.
C25_TotalIsAmountPlusFee ==
    \A i \in Rows : txs[i].total_amount = txs[i].amount + txs[i].fee

\* C26: a deposit is completed and credited only with an amount above zero: a
\* callback step that completes a row stores an amount > 0, and a callback step
\* that changes a balance raises it.
C26_CreditOnlyPositiveAmount ==
    [][resp'.op = "callback" =>
        /\ \A r \in Rows : (txs[r].status # "completed" /\ txs'[r].status = "completed")
                           => txs'[r].amount > 0
        /\ \A u \in Users : balance'[u] # balance[u] => balance'[u] > balance[u]]_vars

\* C27: get_pesapal_token returns the cached token only while the cache holds a
\* token with expires_at > now, and asks for a new one only otherwise; a token
\* request that fails raises and leaves the cache as it was; one that succeeds
\* stores the new token with an expiry TokenLifetime ahead; nothing else changes
\* the cache.
C27_TokenCacheFresh ==
    [][/\ (token_ret' # token_ret /\ token_ret'.kind = "cached")
            => /\ token_cache.token # NoToken
               /\ token_cache.expires_at > now
               /\ token_ret'.token = token_cache.token
               /\ token_cache' = token_cache
       /\ (token_ret' # token_ret /\ token_ret'.kind = "raised")
            => token_cache' = token_cache
       /\ (token_ret' # token_ret /\ token_ret'.kind = "new")
            => /\ token_ret'.token \in Tokens
               /\ token_cache' = [token |-> token_ret'.token,
                                  expires_at |-> now' + TokenLifetime]
       /\ token_cache' # token_cache
            => (token_ret' # token_ret /\ token_ret'.kind = "new")
       /\ \A w \in Workers : (sess[w] = Idle /\ sess'[w].pc = "token_request")
            => ~(token_cache.token # NoToken /\ token_cache.expires_at > now)]_vars

\* the cached token is returned in the last minute before it expires, more than
\* TokenLifetime minutes after the start
C27_Witness ==
    /\ token_ret.kind = "cached"
    /\ token_ret.at = token_cache.expires_at - 1
    /\ token_ret.at > TokenLifetime
    /\ token_ret.token = token_cache.token

\* the two status fields of the answer contradict each other
ConflictingFields ==
    LET d == Upper(classified.description)
    IN  \/ classified.status_code = 1 /\ d \in {"FAILED", "CANCELLED", "INVALID"}
        \/ classified.status_code \in {2, 3} /\ d = "COMPLETED"

\* C28: for every status_code and payment_status_description the callback's
\* classification and the poll's are the same outcome, and both are success when
\* one field says completed and the other failed.
C28_SameClassification ==
    /\ (classified.callback # "" /\ classified.poll # -1)
            => PollOutcome(classified.poll) = classified.callback
    /\ (ConflictingFields /\ classified.callback # "") => classified.callback = "success"
    /\ (ConflictingFields /\ classified.poll # -1) => classified.poll = 1

\* both readers have classified an answer saying failed by code and completed by text
C28_Witness ==
    /\ classified.status_code = 2 /\ classified.description = "Completed"
    /\ classified.callback = "success" /\ classified.poll = 1

\* the balances of the wallets in S, summed
RECURSIVE SumBalances(_, _)
SumBalances(b, S) ==
    IF S = {} THEN 0
    ELSE LET u == CHOOSE x \in S : TRUE IN b[u] + SumBalances(b, S \ {u})

\* the fees of the completed transfer rows of q, summed
RECURSIVE TransferFees(_)
TransferFees(q) ==
    IF q = << >> THEN 0
    ELSE (IF Head(q).type = "transfer" /\ Head(q).status = "completed"
          THEN Head(q).fee ELSE 0) + TransferFees(Tail(q))

\* C29: with transfers alone, in sequence or side by side, the balances sum to
\* the opening sum less the fees of the completed transfer rows.
C29_TransfersConserveMoney ==
    SumBalances(balance, Users) = SumBalances(InitBalance, Users) - TransferFees(txs)

\* C30: a pending row whose owner has a wallet, for which a callback or a poll
\* of the owner is handled while the status query answers with the settled
\* outcome, is eventually completed or failed.
C30_SettledPaymentLeavesPending ==
    \A r \in 1..MaxDeposits :
        (r \in Rows /\ txs[r].status = "pending" /\ txs[r].sender_id \in Wallets)
            ~> (r \in Rows /\ txs[r].status \in Terminal)

\* a row left pending by an earlier reconciliation has been failed by a poll
C30_Witness ==
    /\ Rows # {}
    /\ txs[1].status = "failed" /\ txs[1].note = "poll_failed"
    /\ nrec > 1

====
